---- MODULE Spec2Model ----
(***************************************************************************)
(* Model of the create-v1 environment setup wizard (get-convex/v1):        *)
(* the Value Store (dotenv.parse + updateEnvFile), the Value Resolver      *)
(* (getExistingValue), the prompt, and the Propagator (updateProjectValue) *)
(* as sequenced by setupEnvironment and main.                              *)
(*                                                                         *)
(* Text is a sequence of characters.  A character is a one-element string; *)
(* a Word element stands for a run of [\w.-] characters that the program   *)
(* never splits (an identifier such as API_KEY, a token such as abc123).   *)
(***************************************************************************)
EXTENDS Integers, Sequences, FiniteSets, TLC

\* ------------------------------------------------------------------ bounds
MaxRawLen == 2
MaxValueLen == 2

\* ---------------------------------------------------------------- alphabet
SP == " "
DQ == "\""
HASH == "#"
EQ == "="
NL == "\n"

\* runs of [\w.-] characters
Word == {"API_KEY", "OTHER", "abc123", "x", "y", "d"}
\* runs of characters that are neither [\w.-] nor white space, quote, # or =
CloudUrl == "https://x.convex.cloud"
SiteUrl == "https://x.convex.site"
Plain == {CloudUrl, SiteUrl, "/cb", "[", "]", "not set"}
\* {{key}} spans matched by /\{\{(\w+)\}\}/g, as single characters of a template
Placeholder == {"{{convexUrl}}", "{{convexSiteUrl}}", "{{host}}"}
WS == {SP, NL}
Char == Word \cup Plain \cup {SP, DQ, HASH, EQ, NL}

\* JS undefined, and the ENOENT outcome of fs.readFileSync
UNDEF == <<"undefined">>
NoFile == <<"ENOENT">>

\* JS truthiness of a string | undefined
Truthy(v) == v # UNDEF /\ v # <<>>

Min(S) == CHOOSE m \in S : \A o \in S : m <= o
Max(S) == CHOOSE m \in S : \A o \in S : m >= o

\* smallest index j >= i of t whose character is outside S (Len(t)+1 if none)
Scan(t, i, S) == Min({j \in i..(Len(t) + 1) : j = Len(t) + 1 \/ t[j] \notin S})

Slice(t, a, b) == IF a > b THEN <<>> ELSE SubSeq(t, a, b)

\* String.prototype.trim
Trim(t) ==
  LET a == Scan(t, 1, WS)
      ends == {j \in 1..Len(t) : t[j] \notin WS}
  IN IF a > Len(t) THEN <<>> ELSE Slice(t, a, Max(ends))

\* value.replace(/^(['"`])([\s\S]*)\1$/mg, '$2')
Unquote(t) ==
  IF Len(t) >= 2 /\ t[1] = DQ /\ t[Len(t)] = DQ THEN Slice(t, 2, Len(t) - 1) ELSE t

\* ------------------------------------------------------------ dotenv.parse
\* The tail of LINE after the value:  \s*(?:#.*)?(?:$|$)  tried at index e.
RemOK(t, e) ==
  LET w == Scan(t, e, WS)
  IN \/ w > Len(t)
     \/ t[w] = HASH
     \/ \E j \in e..(w - 1) : t[j] = NL

\* index at which the match ends (the first character not consumed)
RemEnd(t, e) ==
  LET w == Scan(t, e, WS)
  IN IF w > Len(t) THEN Len(t) + 1
     ELSE IF t[w] = HASH THEN Scan(t, w, Char \ {NL})
     ELSE Max({j \in e..(w - 1) : t[j] = NL})

\* obj[key] = value on an insertion-ordered object
Put(m, k, v) ==
  IF \E i \in 1..Len(m) : m[i].k = k
  THEN [i \in 1..Len(m) |-> IF m[i].k = k THEN [k |-> k, v |-> v] ELSE m[i]]
  ELSE Append(m, [k |-> k, v |-> v])

\* One exec of LINE from lastIndex = pos, repeated until the text is used up.
RECURSIVE ParseFrom(_, _, _)
ParseFrom(t, pos, m) ==
  LET n == Len(t)
      k == Scan(t, pos, WS)              \* (?:^|^)\s*
  IN IF k > n THEN m
     ELSE
       LET k2 == Scan(t, k, Word)        \* ([\w.-]+)
           k3 == Scan(t, k2, WS)         \* \s*=
           skip == Scan(t, k, Char \ {NL})
       IN IF k2 = k \/ k3 > n \/ t[k3] # EQ
          THEN ParseFrom(t, skip, m)     \* no match on this line
          ELSE
            LET q == k3 + 1
                d == Scan(t, q, WS)
                e == Scan(t, d + 1, Char \ {DQ})
                quoted == d <= n /\ t[d] = DQ /\ e <= n /\ RemOK(t, e + 1)
                r == Scan(t, q, Char \ {HASH, NL})
                raw == IF quoted THEN Slice(t, q, e) ELSE Slice(t, q, r - 1)
                fin == IF quoted THEN RemEnd(t, e + 1) ELSE RemEnd(t, r)
            IN ParseFrom(t, fin, Put(m, Slice(t, k, k2 - 1), Unquote(Trim(raw))))

Parse(t) == ParseFrom(t, 1, <<>>)

\* envConfig[key]
Get(m, k) ==
  IF \E i \in 1..Len(m) : m[i].k = k
  THEN m[CHOOSE i \in 1..Len(m) : m[i].k = k].v
  ELSE UNDEF

Keys(m) == {m[i].k : i \in 1..Len(m)}

\* mutant of Serialize: every line is ended by a newline
RECURSIVE Serialize_TrailingNewline(_)
Serialize_TrailingNewline(m) ==
  IF m = <<>> THEN <<>>
  ELSE m[1].k \o <<EQ>> \o m[1].v \o <<NL>> \o Serialize_TrailingNewline(Tail(m))

\* Object.entries(envConfig).map(([k, v]) => `${k}=${v}`).join("\n")
RECURSIVE Serialize(_)
Serialize(m) ==
  IF m = <<>> THEN <<>>
  ELSE LET line == m[1].k \o <<EQ>> \o m[1].v
       IN IF Len(m) = 1 THEN line ELSE line \o <<NL>> \o Serialize(Tail(m))

\* fs.readFileSync inside try/catch: a missing file reads as ""
ReadOrEmpty(f) == IF f = NoFile THEN <<>> ELSE f

\* the content updateEnvFile writes for file content f
updateEnvFile(f, key, value) == Serialize(Put(Parse(ReadOrEmpty(f)), key, value))

\* the Value Store's read(path)
read(f) == Parse(ReadOrEmpty(f))

\* getEnvFileValue: envConfig[key], undefined when the file cannot be read
getEnvFileValue(f, key) == IF f = NoFile THEN UNDEF ELSE Get(Parse(f), key)

\* ------------------------------------------------------------ configuration
\* config.projects of setup-config.json: envFile is "" when absent; a command
\* template is opaque, only its presence is modelled.
FileA == "apps/app/.env"
FileC == "apps/web/.env"
Paths == {FileA, FileC}

Projects ==
  << [id |-> "A", envFile |-> FileA, importCommand |-> FALSE, exportCommand |-> FALSE],
     [id |-> "B", envFile |-> "", importCommand |-> TRUE, exportCommand |-> TRUE],
     [id |-> "C", envFile |-> FileC, importCommand |-> TRUE, exportCommand |-> TRUE],
     [id |-> "E", envFile |-> "", importCommand |-> FALSE, exportCommand |-> FALSE] >>

\* config.projects.find((p) => p.id === projectId)
Known(pid) == \E i \in 1..Len(Projects) : Projects[i].id = pid
Find(pid) == Projects[CHOOSE i \in 1..Len(Projects) : Projects[i].id = pid]

ImportIds == {Projects[i].id : i \in {j \in 1..Len(Projects) : Projects[j].importCommand}}

\* the outcome of execSync that throws (non-zero exit, spawn error)
THROW == <<"throw">>

\* ---------------------------------------------------------- Value Context
NoValues == [convexUrl |-> <<>>, convexSiteUrl |-> <<>>]

\* values[key as keyof Values]
ValueOf(vals, ph) ==
  IF ph = "{{convexUrl}}" THEN vals.convexUrl
  ELSE IF ph = "{{convexSiteUrl}}" THEN vals.convexSiteUrl
  ELSE UNDEF

KeyName(ph) ==
  IF ph = "{{convexUrl}}" THEN "convexUrl"
  ELSE IF ph = "{{convexSiteUrl}}" THEN "convexSiteUrl"
  ELSE "host"

\* variable.template.replace(/\{\{(\w+)\}\}/g, (_, key) => values[key] || "")
RECURSIVE InterpolateTemplate(_, _)
InterpolateTemplate(t, vals) ==
  IF t = <<>> THEN <<>>
  ELSE LET c == Head(t)
           sub == IF c \in Placeholder
                  THEN (IF Truthy(ValueOf(vals, c)) THEN ValueOf(vals, c) ELSE <<>>)
                  ELSE <<c>>
       IN sub \o InterpolateTemplate(Tail(t), vals)

\* infoItem.replace(/\{\{(\w+)\}\}/g, (_, key) => values[key] || `[${key} not set]`)
RECURSIVE InterpolateInfo(_, _)
InterpolateInfo(t, vals) ==
  IF t = <<>> THEN <<>>
  ELSE LET c == Head(t)
           sub == IF c \in Placeholder
                  THEN (IF Truthy(ValueOf(vals, c)) THEN ValueOf(vals, c)
                        ELSE <<"[", KeyName(c), SP, "not set", "]">>)
                  ELSE <<c>>
       IN sub \o InterpolateInfo(Tail(t), vals)

\* --------------------------------------------------------- Value Resolver
\* getExistingValue: fs maps a path to its content, imp maps a project id to
\* what execSync of its import command yields (THROW, or its stdout).
\* Returns the value found and the import commands it ran, in order.
RECURSIVE LookupFrom(_, _, _, _, _)

\* mutant of LookupFrom: the import command of a target that has an envFile
\* is asked when the file holds no value
LookupFrom_ImportFallback(variable, fs, imp, i, ran) ==
  IF i > Len(variable.projects) THEN [value |-> UNDEF, ran |-> ran]
  ELSE
    LET pid == variable.projects[i]
    IN IF ~Known(pid) THEN LookupFrom(variable, fs, imp, i + 1, ran)
       ELSE
         LET project == Find(pid)
             v == IF project.envFile # ""
                  THEN getEnvFileValue(fs[project.envFile], variable.name)
                  ELSE UNDEF
         IN IF Truthy(v) THEN [value |-> v, ran |-> ran]
            ELSE IF project.importCommand
            THEN LET r == imp[pid]
                     ran2 == Append(ran, [project |-> pid, result |-> r])
                 IN IF r # THROW /\ Truthy(Trim(r))
                    THEN [value |-> Trim(r), ran |-> ran2]
                    ELSE LookupFrom(variable, fs, imp, i + 1, ran2)
            ELSE LookupFrom(variable, fs, imp, i + 1, ran)

\* mutant of LookupFrom: a failed import command ends the lookup
LookupFrom_StopOnThrow(variable, fs, imp, i, ran) ==
  IF i > Len(variable.projects) THEN [value |-> UNDEF, ran |-> ran]
  ELSE
    LET pid == variable.projects[i]
    IN IF ~Known(pid) THEN LookupFrom(variable, fs, imp, i + 1, ran)
       ELSE
         LET project == Find(pid)
         IN IF project.envFile # ""
            THEN LET v == getEnvFileValue(fs[project.envFile], variable.name)
                 IN IF Truthy(v) THEN [value |-> v, ran |-> ran]
                    ELSE LookupFrom(variable, fs, imp, i + 1, ran)
            ELSE IF project.importCommand
            THEN LET r == imp[pid]
                     ran2 == Append(ran, [project |-> pid, result |-> r])
                 IN IF r = THROW THEN [value |-> UNDEF, ran |-> ran2]
                    ELSE IF Truthy(Trim(r)) THEN [value |-> Trim(r), ran |-> ran2]
                    ELSE LookupFrom(variable, fs, imp, i + 1, ran2)
            ELSE LookupFrom(variable, fs, imp, i + 1, ran)

LookupFrom(variable, fs, imp, i, ran) ==
  IF i > Len(variable.projects) THEN [value |-> UNDEF, ran |-> ran]
  ELSE
    LET pid == variable.projects[i]
    IN IF ~Known(pid) THEN LookupFrom(variable, fs, imp, i + 1, ran)
       ELSE
         LET project == Find(pid)
         IN IF project.envFile # ""
            THEN LET v == getEnvFileValue(fs[project.envFile], variable.name)
                 IN IF Truthy(v) THEN [value |-> v, ran |-> ran]
                    ELSE LookupFrom(variable, fs, imp, i + 1, ran)
            ELSE IF project.importCommand
            THEN LET r == imp[pid]
                     ran2 == Append(ran, [project |-> pid, result |-> r])
                 IN IF r # THROW /\ Truthy(Trim(r))
                    THEN [value |-> Trim(r), ran |-> ran2]
                    ELSE LookupFrom(variable, fs, imp, i + 1, ran2)
            ELSE LookupFrom(variable, fs, imp, i + 1, ran)

\* mutant of getExistingValue: every project of the config is consulted, in
\* the config's order
getExistingValue_AllProjects(variable, fs, imp) ==
  LookupFrom([variable EXCEPT !.projects = [i \in 1..Len(Projects) |-> Projects[i].id]],
             fs, imp, 1, <<>>)

getExistingValue(variable, fs, imp) == LookupFrom(variable, fs, imp, 1, <<>>)

\* mutant of DefaultFor: the static default is used when the template renders empty
DefaultFor_TemplateOrDefault(variable, existing, vals) ==
  IF Truthy(existing) THEN existing
  ELSE IF Truthy(variable.template) /\ Truthy(InterpolateTemplate(variable.template, vals))
  THEN InterpolateTemplate(variable.template, vals)
  ELSE variable.defaultValue

\* existingValue || (variable.template ? interpolated : variable.defaultValue)
DefaultFor(variable, existing, vals) ==
  IF Truthy(existing) THEN existing
  ELSE IF Truthy(variable.template) THEN InterpolateTemplate(variable.template, vals)
  ELSE variable.defaultValue

\* inquirer input prompt: an empty response yields the default, "" without one
PromptAnswer(input, default) ==
  IF input # <<>> THEN input
  ELSE IF default = UNDEF THEN <<>> ELSE default

\* ------------------------------------------------------------------ state
VARIABLES
  pc,            \* where the run is: main, urls, setup, urls2, step, variable,
                 \*   prompt, propagate, done, exit; "store" in the Value Store spec
  config,        \* the loaded setup-config.json: [state, steps, ignoreLogs]
  backendDir,    \* fs.existsSync(packages/backend)
  writable,      \* the paths fs.writeFileSync can write
  importResult,  \* project id -> what its import command yields when run
  files0,        \* the persistence files as the run found them
  files,         \* path -> content of the persistence file, or NoFile
  values,        \* the Value Context
  stepIdx, varIdx, projIdx,
  existingValue, \* what getExistingValue returned for the current variable
  defaultValue,  \* the default offered at the prompt
  imports,       \* import commands run for the current variable, with results
  value,         \* answer.value
  updatedFiles,  \* locations written for the current variable
  execLog,       \* every external command run so far
  out,           \* operator-visible messages emitted so far
  exitCode,      \* -1 while running
  st,            \* Value Store spec: [f, key, value, calls, before, first]
  mode,          \* the action picked at the first prompt: "create" or "env"
  dev,           \* --dev
  handler,       \* the version of the task "Setting up Convex backend" that is
                 \*   installed: the one of part_006, or the one of index.ts
  taskIdx,       \* createNewProject: index of the task begun last, 0 before the first
  status,        \* task -> Pending, Running, Succeeded, Failed
  spinner,       \* the ora spinner of the current task
  enabled,       \* createLogger: enabled
  child,         \* task -> none, running, killed (kill sent, no exit yet), exited
  run            \* [n, received, clean]: n = 1 in the first run over the project
                 \*   directory, 2 in a re-run, which knows what the first one did

\* what the run is given and never changes
env == <<config, backendDir, writable, importResult, files0>>

\* the state of createNewProject's task loop
pipe == <<mode, dev, handler, taskIdx, status, spinner, enabled, child>>

vars == <<pc, env, files, values, stepIdx, varIdx, projIdx, existingValue,
          defaultValue, imports, value, updatedFiles, execLog, out, exitCode, st,
          pipe, run>>

NoStore == [f |-> NoFile, key |-> <<>>, value |-> <<>>, calls |-> 0,
            before |-> <<>>, first |-> <<>>]

\* ------------------------------------------------------ configurations run
TargetLists == {<<"A">>, <<"A", "B">>, <<"B", "A">>, <<"C">>, <<"Z", "A">>, <<"E", "B">>}
Templates == {UNDEF, <<"{{convexSiteUrl}}", "/cb">>, <<"{{convexUrl}}">>}

Var(name, projects, required, default, template) ==
  [name |-> name, projects |-> projects, required |-> required,
   defaultValue |-> default, template |-> template,
   info |-> IF template = UNDEF THEN <<>> ELSE <<template>>]

VarSet ==
  {Var(<<"API_KEY">>, ps, rq, dv, tp) :
     ps \in TargetLists, rq \in BOOLEAN, dv \in {UNDEF, <<"d">>}, tp \in Templates}

\* a second variable, for the configurations with more than one
VarSet2 == {Var(nm, <<"A">>, TRUE, UNDEF, UNDEF) : nm \in {<<"API_KEY">>, <<"OTHER">>}}

Step(variables) == [variables |-> variables]

StepLists ==
  {<<Step(<<v>>)>> : v \in VarSet}
  \cup {<<Step(<<v, w>>)>> : v \in VarSet2, w \in VarSet2}
  \cup {<<Step(<<v>>), Step(<<>>), Step(<<w>>)>> : v \in VarSet2, w \in VarSet2}

\* what loadConfig finds at configPath
ConfigStates == {"ok", "missing", "unparseable", "no-projects-array"}

InitialFiles ==
  {NoFile,
   <<"API_KEY", EQ, "x">>,
   <<"API_KEY", EQ>>,
   <<"OTHER", EQ, DQ, "x", HASH, "y", DQ, NL, "API_KEY", EQ, SP, "x", SP>>}

\* stdout of an import command, or THROW
ImportOutcomes == {THROW, <<>>, <<SP, "y", NL>>}
\* the import command of a target that also has an envFile answers " y\n"
ImportResults ==
  {[id \in ImportIds |-> IF Find(id).envFile = "" THEN o ELSE <<SP, "y", NL>>] :
     o \in ImportOutcomes}
\* some variable of the steps declares a target that has an import command
\* (without one no import result is ever read)
UsesImport(steps) ==
  \E i \in 1..Len(steps) : \E j \in 1..Len(steps[i].variables) :
    \E k \in 1..Len(steps[i].variables[j].projects) :
      steps[i].variables[j].projects[k] \in ImportIds
OperatorInputs == {<<>>, <<"abc123">>, <<"x", SP, "y">>}

\* createNewProject: the tasks array, by what each task runs
Tasks == <<"clone", "install", "git", "convex", "url", "auth", "env", "seed">>
TaskSet == {Tasks[i] : i \in 1..Len(Tasks)}

\* the tool invoked for the first time
FirstRun == [n |-> 1, received |-> UNDEF, clean |-> TRUE]

\* what the operator types at the prompt of a variable; in a re-run nothing
InputsOf(r) == IF r.n = 1 THEN OperatorInputs ELSE {<<>>}

\* before createNewProject: no task begun, the logger enabled, no child
NoPipeline ==
  /\ taskIdx = 0
  /\ status = [t \in TaskSet |-> "Pending"]
  /\ spinner = "none"
  /\ enabled = TRUE
  /\ child = [t \in TaskSet |-> [st |-> "none", code |-> <<>>]]

Msg(ch, msg, name, fl) == [ch |-> ch, msg |-> msg, name |-> name, files |-> fl]
Exec(cmd, project, name, val, result) ==
  [cmd |-> cmd, project |-> project, name |-> name, value |-> val, result |-> result]

\* shouldIgnoreLog: the message starts with one of the prefixes.  A message
\* is held as its beginning, a prefix as the beginning it matches.
shouldIgnoreLog(message, ignoreLogs) == \E prefix \in ignoreLogs : message = prefix

\* what reaches the terminal of the messages setupEnvironment emits:
\* customConsole drops a message that some project's ignoreLogs matches,
\* console.log and console.error print whatever they are given
RECURSIVE Printed(_)
Printed(msgs) ==
  IF msgs = <<>> THEN <<>>
  ELSE (IF /\ Head(msgs).ch \in {"customConsole.log", "customConsole.error"}
           /\ shouldIgnoreLog(Head(msgs).msg, config.ignoreLogs)
        THEN <<>> ELSE <<Head(msgs)>>) \o Printed(Tail(msgs))

Init ==
  /\ pc = "main"
  /\ \E cs \in ConfigStates, sl \in StepLists :
       config = [state |-> cs, steps |-> IF cs = "ok" THEN sl ELSE <<>>,
                 ignoreLogs |-> {}]
  /\ backendDir \in BOOLEAN
  /\ \E fa \in InitialFiles : files0 = [p \in Paths |-> IF p = FileA THEN fa ELSE NoFile]
  /\ files = files0
  /\ writable \in {Paths, {}}
  /\ importResult \in (IF UsesImport(config.steps) THEN ImportResults
                        ELSE {[id \in ImportIds |-> THROW]})
  /\ values = NoValues
  /\ stepIdx = 0 /\ varIdx = 0 /\ projIdx = 0
  /\ existingValue = UNDEF
  /\ defaultValue = UNDEF
  /\ imports = <<>>
  /\ value = <<>>
  /\ updatedFiles = <<>>
  /\ execLog = <<>>
  /\ out = <<>>
  /\ exitCode = -1
  /\ st = NoStore
  /\ mode = "env" /\ dev = FALSE /\ handler = "part_006"
  /\ NoPipeline
  /\ run = FirstRun

\* ---------------------------------------------------------- getConvexUrls
\* o is what happens to "npx convex function-spec": "fail" when execSync throws
\* or the output holds no url (both end in the catch block), "url" when it
\* prints the deployment url.  Nothing is run without packages/backend.
UrlOutcomes == {"fail", "url"}

getConvexUrls(dir, o) ==
  IF ~dir
  THEN [vals |-> NoValues, execs |-> <<>>,
        msgs |-> <<Msg("console.error", "backend directory not found", <<>>, <<>>)>>]
  ELSE IF o = "url"
  THEN [vals |-> [convexUrl |-> <<CloudUrl>>, convexSiteUrl |-> <<SiteUrl>>],
        execs |-> <<Exec("function-spec", "", <<>>, <<>>, <<CloudUrl>>)>>,
        msgs |-> <<Msg("console.log", "retrieved Convex URLs", <<>>, <<>>)>>]
  ELSE [vals |-> NoValues,
        execs |-> <<Exec("function-spec", "", <<>>, <<>>, THROW)>>,
        msgs |-> <<Msg("console.error", "Failed to retrieve Convex URLs", <<>>, <<>>)>>]

UrlsMissing(vals) == ~Truthy(vals.convexUrl) \/ ~Truthy(vals.convexSiteUrl)

\* process.exit(1)
Abort(msgs) ==
  /\ pc' = "exit"
  /\ exitCode' = 1
  /\ out' = out \o msgs

\* an error leaves setupEnvironment: main().catch in "env", the catch block
\* of the task loop in "create"
Throw ==
  IF mode = "env"
  THEN Abort(<<Msg("console.error", "An error occurred during project setup", <<>>, <<>>)>>)
  ELSE pc' = "catch" /\ UNCHANGED <<out, exitCode>>

\* main, action "env": manage the environment of an existing project
MainEnv ==
  /\ pc = "main"
  /\ mode = "env"
  /\ IF config.state = "missing"
     THEN /\ Abort(<<Msg("console.error", "setup-config.json not found", <<>>, <<>>)>>)
          /\ UNCHANGED <<values, execLog>>
     ELSE \E o \in UrlOutcomes :
            LET r == getConvexUrls(backendDir, o)
            IN /\ values' = r.vals
               /\ execLog' = execLog \o r.execs
               /\ out' = out \o r.msgs \o
                    (IF UrlsMissing(r.vals)
                     THEN <<Msg("console.log", "Warning: Failed to retrieve Convex URLs", <<>>, <<>>)>>
                     ELSE <<>>)
               /\ pc' = "setup"
               /\ UNCHANGED exitCode
  /\ UNCHANGED <<env, files, stepIdx, varIdx, projIdx, existingValue,
                 defaultValue, imports, value, updatedFiles, st, pipe, run>>

\* setupEnvironment up to the step loop: loadConfig, the welcome lines, and
\* a second getConvexUrls when the Value Context is incomplete
SetupEnvironment ==
  /\ pc = "setup"
  /\ IF config.state # "ok"
     THEN /\ Abort(<<Msg("console.error", "Error loading config file", <<>>, <<>>)>>)
          /\ UNCHANGED <<values, execLog, stepIdx>>
     ELSE \E o \in UrlOutcomes :
            LET again == UrlsMissing(values)
                r == getConvexUrls(backendDir, o)
                welcome == <<Msg("customConsole.log", "Welcome", <<>>, <<>>)>>
            IN /\ values' = IF again THEN r.vals ELSE values
               /\ execLog' = IF again THEN execLog \o r.execs ELSE execLog
               /\ out' = out \o Printed(welcome \o (IF again THEN r.msgs ELSE <<>>))
               /\ pc' = "step"
               /\ stepIdx' = 1
               /\ UNCHANGED exitCode
  /\ UNCHANGED <<env, files, varIdx, projIdx, existingValue,
                 defaultValue, imports, value, updatedFiles, st, pipe, run>>

\* the head of one iteration of "for (const [index, step] of config.steps.entries())",
\* or the end of setupEnvironment after the last step
StepBegin ==
  /\ pc = "step"
  /\ IF stepIdx > Len(config.steps)
     THEN /\ out' = out \o Printed(<<Msg("customConsole.log", "Setup complete", <<>>, <<>>)>>)
          /\ pc' = IF mode = "env" THEN "done" ELSE "return"
          /\ exitCode' = IF mode = "env" THEN 0 ELSE exitCode
          /\ UNCHANGED <<stepIdx, varIdx>>
     ELSE IF config.steps[stepIdx].variables = <<>>
     THEN /\ out' = out \o Printed(<<Msg("customConsole.log", "Step", <<>>, <<>>),
                                      Msg("customConsole.log", "Step completed", <<>>, <<>>)>>)
          /\ stepIdx' = stepIdx + 1
          /\ UNCHANGED <<pc, exitCode, varIdx>>
     ELSE /\ out' = out \o Printed(<<Msg("customConsole.log", "Step", <<>>, <<>>)>>)
          /\ pc' = "variable"
          /\ varIdx' = 1
          /\ UNCHANGED <<stepIdx, exitCode>>
  /\ UNCHANGED <<env, files, values, projIdx, existingValue,
                 defaultValue, imports, value, updatedFiles, execLog, st, pipe, run>>

CurVar == config.steps[stepIdx].variables[varIdx]

\* the messages of the failed import commands of one lookup
RECURSIVE ImportErrors(_)
ImportErrors(ran) ==
  IF ran = <<>> THEN <<>>
  ELSE (IF Head(ran).result = THROW
        THEN <<Msg("console.error", "Error", <<Head(ran).project>>, <<>>)>>
        ELSE <<>>) \o ImportErrors(Tail(ran))

ImportExecs(variable, ran) ==
  [i \in 1..Len(ran) |-> Exec("import", ran[i].project, variable.name, <<>>, ran[i].result)]

\* mutant of AfterLookup: the lookup creates the missing files it looked at
AfterLookup_CreatesFiles(fs, variable) ==
  [p \in Paths |->
     IF fs[p] = NoFile
        /\ \E i \in 1..Len(variable.projects) :
              Known(variable.projects[i]) /\ Find(variable.projects[i]).envFile = p
     THEN <<>> ELSE fs[p]]

\* the files after getExistingValue: getEnvFileValue only reads, and a file
\* that cannot be read is not created
AfterLookup(fs, variable) == fs

\* one variable up to the prompt: details, info boxes, getExistingValue, default
ResolveDefault ==
  /\ pc = "variable"
  /\ LET found == getExistingValue(CurVar, files, importResult)
           info == [i \in 1..Len(CurVar.info) |->
                      Msg("customConsole.log", "info", InterpolateInfo(CurVar.info[i], values), <<>>)]
     IN /\ imports' = found.ran
        /\ execLog' = execLog \o ImportExecs(CurVar, found.ran)
        /\ existingValue' = found.value
        /\ defaultValue' = DefaultFor(CurVar, found.value, values)
        /\ out' = out \o Printed(<<Msg("customConsole.log", "details", CurVar.name, <<>>)>>
                                    \o info \o ImportErrors(found.ran))
  /\ files' = AfterLookup(files, CurVar)
  /\ pc' = "prompt"
  /\ UNCHANGED <<env, values, stepIdx, varIdx, projIdx,
                 value, updatedFiles, exitCode, st, pipe, run>>

\* --------------------------------------------------------------- Propagator
\* mutant of updateProjectValue: the error of the export command is not caught
updateProjectValue_ExportUncaught(project, key, val, fs, canWrite, ex) ==
  IF project.envFile # ""
  THEN IF project.envFile \in canWrite
       THEN [fs |-> [fs EXCEPT ![project.envFile] = updateEnvFile(@, key, val)],
             updatedFile |-> <<project.envFile>>, threw |-> FALSE,
             execs |-> <<>>, msgs |-> <<>>]
       ELSE [fs |-> fs, updatedFile |-> UNDEF, threw |-> TRUE,
             execs |-> <<>>, msgs |-> <<>>]
  ELSE IF project.exportCommand
  THEN [fs |-> fs, updatedFile |-> UNDEF, threw |-> ex # "ok",
        execs |-> <<Exec("export", project.id, key, val,
                         IF ex = "ok" THEN <<>> ELSE THROW)>>,
        msgs |-> <<>>]
  ELSE [fs |-> fs, updatedFile |-> UNDEF, threw |-> FALSE, execs |-> <<>>, msgs |-> <<>>]

\* updateProjectValue: canWrite are the paths writeFileSync can write, ex is
\* what happens to the export command ("ok" or "throw").  threw: the error
\* left the function; updatedFile: the relative path returned, or UNDEF.
updateProjectValue(project, key, val, fs, canWrite, ex) ==
  IF project.envFile # ""
  THEN IF project.envFile \in canWrite
       THEN [fs |-> [fs EXCEPT ![project.envFile] = updateEnvFile(@, key, val)],
             updatedFile |-> <<project.envFile>>, threw |-> FALSE,
             execs |-> <<>>, msgs |-> <<>>]
       ELSE [fs |-> fs, updatedFile |-> UNDEF, threw |-> TRUE,
             execs |-> <<>>, msgs |-> <<>>]
  ELSE IF project.exportCommand
  THEN [fs |-> fs, updatedFile |-> UNDEF, threw |-> FALSE,
        execs |-> <<Exec("export", project.id, key, val,
                         IF ex = "ok" THEN <<>> ELSE THROW)>>,
        msgs |-> IF ex = "ok" THEN <<>>
                 ELSE <<Msg("console.error", "Failed to export value", <<project.id>>, <<>>),
                        Msg("console.error", "Error", <<project.id>>, <<>>)>>]
  ELSE [fs |-> fs, updatedFile |-> UNDEF, threw |-> FALSE, execs |-> <<>>, msgs |-> <<>>]

\* mutant of ShouldPropagate: an empty value is never propagated
ShouldPropagate_NonEmpty(variable, val) == Truthy(val)

\* mutant of SkipTarget: an id that names no project is an error
SkipTarget_Throws(fs) ==
  [fs |-> fs, updatedFile |-> UNDEF, threw |-> TRUE, execs |-> <<>>, msgs |-> <<>>]

\* if (project) { ... }: nothing is done for an id that names no project
SkipTarget(fs) ==
  [fs |-> fs, updatedFile |-> UNDEF, threw |-> FALSE, execs |-> <<>>, msgs |-> <<>>]

\* mutant of ShouldPropagate: the required flag is not looked at
ShouldPropagate_Always(variable, val) == TRUE

\* mutant of MoreTargets: the loop is left after its first iteration
MoreTargets_FirstOnly(variable, i) == FALSE

\* for (const projectId of variable.projects): another iteration follows the i-th
MoreTargets(variable, i) == i < Len(variable.projects)

\* if (value || variable.required !== false)
ShouldPropagate(variable, val) == Truthy(val) \/ variable.required # FALSE

\* the lines after the loop over variable.projects
SetMessages(variable, written) ==
  IF Len(written) > 0
  THEN <<Msg("customConsole.log", "Set in", variable.name, written)>>
  ELSE <<Msg("customConsole.log", "Set", variable.name, <<>>)>>

\* leave the current variable: the next one, or the end of the step
NextVariable(msgs) ==
  IF varIdx < Len(config.steps[stepIdx].variables)
  THEN /\ varIdx' = varIdx + 1
       /\ pc' = "variable"
       /\ out' = out \o Printed(msgs)
       /\ UNCHANGED stepIdx
  ELSE /\ stepIdx' = stepIdx + 1
       /\ pc' = "step"
       /\ out' = out \o Printed(msgs \o <<Msg("customConsole.log", "Step completed", <<>>, <<>>)>>)
       /\ UNCHANGED varIdx

\* the operator answers the inquirer prompt of the current variable
Prompt ==
  /\ pc = "prompt"
  /\ \E input \in InputsOf(run) :
       LET answer == PromptAnswer(input, defaultValue)
       IN /\ value' = answer
          /\ IF ShouldPropagate(CurVar, answer)
             THEN IF CurVar.projects = <<>>
                  THEN NextVariable(SetMessages(CurVar, <<>>)) /\ UNCHANGED projIdx
                  ELSE /\ pc' = "propagate"
                       /\ projIdx' = 1
                       /\ UNCHANGED <<out, stepIdx, varIdx>>
             ELSE /\ NextVariable(<<Msg("customConsole.log", "Skipped", CurVar.name, <<>>)>>)
                  /\ UNCHANGED projIdx
  /\ updatedFiles' = <<>>
  /\ UNCHANGED <<env, files, values, existingValue, defaultValue, imports,
                 execLog, exitCode, st, pipe, run>>

\* one iteration of "for (const projectId of variable.projects)", and, after
\* the last one, the report of the locations written
Propagate ==
  /\ pc = "propagate"
  /\ \E ex \in {"ok", "throw"} :
       LET pid == CurVar.projects[projIdx]
           last == ~MoreTargets(CurVar, projIdx)
           r == IF Known(pid)
                THEN updateProjectValue(Find(pid), CurVar.name, value, files, writable, ex)
                ELSE SkipTarget(files)
           written == IF Truthy(r.updatedFile) THEN updatedFiles \o r.updatedFile
                      ELSE updatedFiles
       IN /\ files' = r.fs
          /\ execLog' = execLog \o r.execs
          /\ updatedFiles' = written
          /\ IF r.threw
             THEN /\ Throw
                  /\ UNCHANGED <<stepIdx, varIdx, projIdx>>
             ELSE IF last
             THEN /\ NextVariable(r.msgs \o SetMessages(CurVar, written))
                  /\ UNCHANGED <<projIdx, exitCode>>
             ELSE /\ projIdx' = projIdx + 1
                  /\ out' = out \o Printed(r.msgs)
                  /\ UNCHANGED <<pc, stepIdx, varIdx, exitCode>>
  /\ UNCHANGED <<env, values, existingValue, defaultValue, imports, value, st,
                 pipe, run>>

Next ==
  \/ MainEnv
  \/ SetupEnvironment
  \/ StepBegin
  \/ ResolveDefault
  \/ Prompt
  \/ Propagate

Spec == Init /\ [][Next]_vars

\* ------------------------------------------------------- createNewProject
\* exit codes a child process ends with; KilledBySignal stands for the code
\* null that 'exit' reports for a child ended by a signal
KilledBySignal == -1
ExitCodes == {0, 1, 2}

\* stdout of "npx convex function-spec" when it exits with 0
UrlOutputs == {"url", "nourl", "garbage"}

\* the two versions of the task "Setting up Convex backend"
Handlers == {"part_006", "index.ts"}

\* tasks run through exec (output buffered), through spawn (output visible)
ExecTasks == {"clone", "install", "git", "url", "seed"}
SpawnTasks == {"convex", "auth"}
\* tasks that call spinner.stop() first
StopsSpinner == {"convex", "url", "auth", "env"}

Cur == Tasks[taskIdx]
ChildOf(s, c) == [st |-> s, code |-> c]
\* "unkilled": child.kill() could not end the child, which goes on running
Alive(t) == child[t].st \in {"running", "killed", "unkilled"}

\* logger.log / logger.error: printed only while enabled
Logged(en, msgs) == IF en THEN msgs ELSE <<>>

\* mutant of TaskOutcome: the backend setup rejects on a non-zero exit as well
TaskOutcome_Strict(t, code) ==
  IF code = 0 \/ (t = "convex" /\ code = KilledBySignal) THEN "resolve" ELSE "reject"

\* mutant of TaskOutcome: the authentication setup tolerates a non-zero exit
TaskOutcome_Lenient(t, code) ==
  IF t \in {"convex", "auth"} \/ code = 0 THEN "resolve" ELSE "reject"

\* what the task's callback does with the exit code of its child: exec hands
\* an error to the callback for every code but 0; the 'exit' handler of the
\* backend setup resolves for every code in part_006 and for the codes 0 and 1
\* in index.ts, the one of the authentication setup for code 0 only
TaskOutcome(t, code) ==
  IF t = "convex" /\ handler = "part_006" THEN "resolve"
  ELSE IF t = "convex" THEN (IF code \in {0, 1} THEN "resolve" ELSE "reject")
  ELSE IF code = 0 THEN "resolve"
  ELSE "reject"

\* the note of the backend setup's 'exit' handler: part_006 prints it with
\* console.log for every code but 0 and null, index.ts hands it to the global
\* logger for the codes 0 and 1
ExitNote(code) ==
  IF handler = "part_006"
  THEN IF code \notin {0, KilledBySignal}
       THEN <<Msg("console.log", "Note: exited as expected", <<>>, <<>>)>>
       ELSE <<>>
  ELSE IF code \in {0, 1}
       THEN Logged(enabled, <<Msg("logger.log", "Note: exited as expected", <<>>, <<>>)>>)
       ELSE <<>>

\* the task's promise resolved: the rest of the try block
Succeed(t, msgs) ==
  /\ enabled' = TRUE
  /\ spinner' = "succeed"
  /\ status' = [status EXCEPT ![t] = "Succeeded"]
  /\ out' = out \o msgs
  /\ pc' = "tasks"
  /\ UNCHANGED exitCode

\* the task's promise rejected, or the task threw: the catch block
Fail(t, msgs) ==
  /\ enabled' = TRUE
  /\ spinner' = "fail"
  /\ status' = [status EXCEPT ![t] = "Failed"]
  /\ out' = out \o msgs \o Logged(TRUE,
              <<Msg("logger.error", "Error during", <<t>>, <<>>),
                Msg("logger.error", "error", <<t>>, <<>>)>>)
  /\ pc' = "exit"
  /\ exitCode' = 1

wizard == <<stepIdx, varIdx, projIdx, existingValue, defaultValue, imports,
            value, updatedFiles>>

\* mutant of RunsPipeline: createNewProject is called whatever was picked
RunsPipeline_Always(action) == TRUE

\* if (action === "create")
RunsPipeline(action) == action = "create"

\* main, action "create", up to the task loop
MainCreate ==
  /\ pc = "main"
  /\ RunsPipeline(mode)
  /\ IF dev /\ config.state = "missing"
     THEN Abort(<<Msg("console.error", "setup-config.json not found", <<>>, <<>>)>>)
     ELSE /\ pc' = "tasks"
          /\ out' = out \o Logged(enabled,
                      <<Msg("logger.log", "Creating a new v1 project", <<>>, <<>>)>>)
          /\ UNCHANGED exitCode
  /\ UNCHANGED <<env, files, values, wizard, execLog, st, pipe, run>>


\* the command a task runs
Command(t) == IF t = "url" THEN "function-spec" ELSE t
Spawned(t) == Exec(Command(t), "", <<>>, <<>>, <<>>)

\* the task starts its child without waiting for the operator: the exec
\* tasks, and the backend setup of index.ts (printBox, no promptToContinue)
StartsChild(t) == t \in ExecTasks \/ (t = "convex" /\ handler = "index.ts")

\* one iteration of "for (const task of tasks)" up to the task's first wait:
\* the spinner is started, the logger disabled, the task called
TaskStart ==
  /\ pc = "tasks"
  /\ taskIdx < Len(Tasks)
  /\ LET t == Tasks[taskIdx + 1]
     IN /\ taskIdx' = taskIdx + 1
        /\ IF t = "env" /\ config.state = "missing"
           THEN /\ Fail(t, <<>>)
                /\ UNCHANGED <<child, execLog>>
           ELSE /\ enabled' = FALSE
                /\ spinner' = IF t \in StopsSpinner THEN "stopped" ELSE "spinning"
                /\ status' = [status EXCEPT ![t] = "Running"]
                /\ child' = IF StartsChild(t)
                            THEN [child EXCEPT ![t] = ChildOf("running", <<>>)]
                            ELSE child
                /\ execLog' = IF StartsChild(t) THEN Append(execLog, Spawned(t))
                              ELSE execLog
                /\ pc' = IF StartsChild(t) THEN "child"
                         ELSE IF t \in SpawnTasks THEN "continue"
                         ELSE "setup"
                /\ UNCHANGED <<out, exitCode>>
  /\ UNCHANGED <<env, files, values, wizard, st, mode, dev, handler, run>>

\* promptToContinue answered: the task spawns its child
Continue ==
  /\ pc = "continue"
  /\ child' = [child EXCEPT ![Cur] = ChildOf("running", <<>>)]
  /\ execLog' = Append(execLog, Spawned(Cur))
  /\ pc' = "child"
  /\ UNCHANGED <<env, files, values, wizard, out, exitCode, st, mode, dev, handler,
                 taskIdx, status, spinner, enabled, run>>

\* mutant of Settles: the backend setup's 'exit' handler does nothing for a
\* code other than 0 and the expected one
Settles_ExpectedOnly(t, code) == t # "convex" \/ code \in {0, 1, KilledBySignal}

\* the callback of exec, and both branches of every 'exit' handler, call
\* resolve or reject: the task's promise is settled whatever the code
Settles(t, code) == TRUE

\* the child of the current task exits by itself: the callback of exec, or
\* the 'exit' handler of the spawned child
ChildExit ==
  /\ pc = "child"
  /\ child[Cur].st = "running"
  /\ \E code \in ExitCodes \cup (IF Cur \in SpawnTasks THEN {KilledBySignal} ELSE {}),
        o \in UrlOutputs :
       /\ (Cur # "url" \/ code # 0) => o = "url"
       /\ child' = [child EXCEPT ![Cur] = ChildOf("exited", <<code>>)]
       /\ IF ~Settles(Cur, code)
          THEN UNCHANGED <<pc, out, exitCode, status, spinner, enabled, values>>
          ELSE IF Cur = "url" /\ code = 0
          THEN IF o = "url"
               THEN /\ values' = [convexUrl |-> <<CloudUrl>>, convexSiteUrl |-> <<SiteUrl>>]
                    /\ Succeed(Cur, <<Msg("console.log", "Convex URLs have been retrieved", <<>>, <<>>)>>)
               ELSE /\ Fail(Cur, <<>>)
                    /\ UNCHANGED values
          ELSE /\ UNCHANGED values
               /\ IF TaskOutcome(Cur, code) = "resolve"
                  THEN Succeed(Cur, IF Cur = "convex" THEN ExitNote(code) ELSE <<>>)
                  ELSE Fail(Cur, <<>>)
  /\ UNCHANGED <<env, files, wizard, execLog, st, mode, dev, handler, taskIdx, run>>

\* the 'error' event of a spawned child that could not be started
ChildError ==
  /\ pc = "child"
  /\ Cur \in SpawnTasks
  /\ child[Cur].st = "running"
  /\ child' = [child EXCEPT ![Cur] = ChildOf("failed", <<>>)]
  /\ Fail(Cur, <<>>)
  /\ UNCHANGED <<env, files, values, wizard, execLog, st, mode, dev, handler, taskIdx, run>>

\* the backend setup writes the expected error to stderr: child.kill() and
\* resolve(), without waiting for the child to exit
ChildStderr ==
  /\ pc = "child"
  /\ Cur = "convex"
  /\ handler = "part_006"
  /\ child[Cur].st = "running"
  /\ child' = [child EXCEPT ![Cur] = ChildOf("killed", <<>>)]
  /\ Succeed(Cur, <<Msg("console.log", "Detected expected error", <<>>, <<>>)>>)
  /\ UNCHANGED <<env, files, values, wizard, execLog, st, mode, dev, handler, taskIdx, run>>

\* mutant of Pending: resolve and reject act on a settled promise as well
Pending_Always(t) == TRUE

\* the promise of task t is not settled yet: resolve() and reject() settle a
\* promise once, later calls have no effect
Pending(t) == status[t] = "Running"

\* the 'exit' event of the killed backend setup, delivered while the run
\* waits for a prompt or for another child: the handler prints the note for
\* a code other than 0 and null, and calls resolve() once more
LateExit ==
  /\ pc \in {"child", "continue", "prompt"}
  /\ child["convex"].st \in {"killed", "unkilled"}
  /\ \E code \in {KilledBySignal, 1} :
       /\ child' = [child EXCEPT !["convex"] = ChildOf("exited", <<code>>)]
       /\ IF Pending("convex")
          THEN Succeed("convex", ExitNote(code))
          ELSE /\ out' = out \o ExitNote(code)
               /\ UNCHANGED <<pc, exitCode, status, spinner, enabled>>
  /\ UNCHANGED <<env, files, values, wizard, execLog, st, mode, dev, handler,
                 taskIdx, run>>

\* the 'error' event of the backend setup after child.kill() could not end
\* it, delivered while the run waits: the handler calls reject(error)
LateError ==
  /\ pc \in {"child", "continue", "prompt"}
  /\ child["convex"].st = "killed"
  /\ child' = [child EXCEPT !["convex"] = ChildOf("unkilled", <<>>)]
  /\ IF Pending("convex")
     THEN Fail("convex", <<>>)
     ELSE UNCHANGED <<pc, out, exitCode, status, spinner, enabled>>
  /\ UNCHANGED <<env, files, values, wizard, execLog, st, mode, dev, handler,
                 taskIdx, run>>

\* setupEnvironment returned to the task "Setting up environment variables"
EnvReturn ==
  /\ pc = "return"
  /\ Succeed(Cur, <<>>)
  /\ UNCHANGED <<env, files, values, wizard, execLog, st, mode, dev, handler, taskIdx,
                 child, run>>

\* an error left setupEnvironment inside the task
EnvCatch ==
  /\ pc = "catch"
  /\ Fail(Cur, <<>>)
  /\ UNCHANGED <<env, files, values, wizard, execLog, st, mode, dev, handler, taskIdx,
                 child, run>>

\* after the task loop
Finish ==
  /\ pc = "tasks"
  /\ taskIdx = Len(Tasks)
  /\ out' = Append(out, Msg("console.log", "Project setup complete", <<>>, <<>>))
  /\ pc' = "done"
  /\ exitCode' = 0
  /\ UNCHANGED <<env, files, values, wizard, execLog, st, pipe, run>>

\* the variables of the configurations of a new project
CreateVarSet ==
  {Var(<<"API_KEY">>, ps, TRUE, UNDEF, tp) :
     ps \in {<<"A", "B">>, <<"B">>}, tp \in {UNDEF, <<"{{convexUrl}}">>}}

InitRun ==
  \/ Init
  \/ /\ pc = "main"
     /\ mode = "create"
     /\ dev \in BOOLEAN
     /\ handler \in Handlers
     /\ \E cs \in ConfigStates, v \in CreateVarSet :
          config = [state |-> cs, steps |-> IF cs = "ok" THEN <<Step(<<v>>)>> ELSE <<>>,
                    ignoreLogs |-> {}]
     /\ backendDir = TRUE
     /\ files0 = [p \in Paths |-> NoFile]
     /\ files = files0
     /\ writable \in {Paths, {}}
     /\ importResult \in (IF UsesImport(config.steps) THEN ImportResults
                           ELSE {[id \in ImportIds |-> THROW]})
     /\ values = NoValues
     /\ stepIdx = 0 /\ varIdx = 0 /\ projIdx = 0
     /\ existingValue = UNDEF
     /\ defaultValue = UNDEF
     /\ imports = <<>>
     /\ value = <<>>
     /\ updatedFiles = <<>>
     /\ execLog = <<>>
     /\ out = <<>>
     /\ exitCode = -1
     /\ st = NoStore
     /\ NoPipeline
     /\ run = FirstRun

NextRun ==
  \/ Next
  \/ MainCreate
  \/ TaskStart
  \/ Continue
  \/ ChildExit
  \/ ChildError
  \/ ChildStderr
  \/ LateExit
  \/ LateError
  \/ EnvReturn
  \/ EnvCatch
  \/ Finish

\* both modes: the environment wizard alone, and the task pipeline around it
SpecRun == InitRun /\ [][NextRun]_vars

\* the steps the wizard takes by itself, but for the two below
ProgramStep ==
  \/ MainEnv \/ MainCreate \/ SetupEnvironment \/ StepBegin
  \/ TaskStart \/ EnvReturn \/ EnvCatch \/ Finish

\* WF_vars(ResolveDefault) and WF_vars(Propagate), written out with what
\* ENABLED amounts to: ResolveDefault can be taken, and changes pc, exactly
\* when pc = "variable"; Propagate can be taken, and changes pc or projIdx,
\* exactly when pc = "propagate"
LookupGoesOn == []<>(pc # "variable") \/ []<><<ResolveDefault>>_vars
PropagationGoesOn == []<>(pc # "propagate") \/ []<><<Propagate>>_vars

\* the wizard goes on while it can, the operator answers every prompt, and
\* every child started ends: it exits, or cannot be started
Fairness ==
  /\ WF_vars(ProgramStep)
  /\ LookupGoesOn
  /\ PropagationGoesOn
  /\ WF_vars(Prompt \/ Continue)
  /\ WF_vars(ChildExit \/ ChildError \/ ChildStderr)

SpecRunFair == SpecRun /\ Fairness

\* ------------------------------------------------------------------ re-run
\* the value the last successful export of the log handed to target id, or
\* UNDEF
RECURSIVE Exported(_, _)
Exported(log, id) ==
  IF log = <<>> THEN UNDEF
  ELSE LET e == log[Len(log)]
       IN IF e.cmd = "export" /\ e.project = id /\ e.result # THROW THEN e.value
          ELSE Exported(SubSeq(log, 1, Len(log) - 1), id)

\* no export command of the log failed
AllExported(log) ==
  \A i \in 1..Len(log) : log[i].cmd = "export" => log[i].result # THROW

\* a persistence file with an entry whose quoted value is itself in quotes
RerunFiles ==
  InitialFiles \cup {<<"OTHER", EQ, DQ, DQ, SP, DQ, DQ, NL, "API_KEY", EQ, "x">>}

InitRerun ==
  /\ pc = "main"
  /\ \E v \in VarSet :
       config = [state |-> "ok", steps |-> <<Step(<<v>>)>>, ignoreLogs |-> {}]
  /\ backendDir \in BOOLEAN
  /\ \E fa \in RerunFiles : files0 = [p \in Paths |-> IF p = FileA THEN fa ELSE NoFile]
  /\ files = files0
  /\ writable = Paths
  /\ importResult \in (IF UsesImport(config.steps) THEN ImportResults
                        ELSE {[id \in ImportIds |-> THROW]})
  /\ values = NoValues
  /\ stepIdx = 0 /\ varIdx = 0 /\ projIdx = 0
  /\ existingValue = UNDEF
  /\ defaultValue = UNDEF
  /\ imports = <<>>
  /\ value = <<>>
  /\ updatedFiles = <<>>
  /\ execLog = <<>>
  /\ out = <<>>
  /\ exitCode = -1
  /\ st = NoStore
  /\ mode = "env" /\ dev = FALSE /\ handler = "part_006"
  /\ NoPipeline
  /\ run = FirstRun

\* the tool is invoked again over the same project directory after a complete
\* run: the files are as the first run left them, and a target's import
\* command answers what its export command was handed last
Rerun ==
  /\ pc = "done"
  /\ mode = "env"
  /\ run.n = 1
  /\ run' = [n |-> 2, received |-> value, clean |-> AllExported(execLog)]
  /\ files0' = files
  /\ importResult' = [id \in ImportIds |->
                        IF Exported(execLog, id) # UNDEF THEN Exported(execLog, id)
                        ELSE importResult[id]]
  /\ pc' = "main"
  /\ values' = NoValues
  /\ stepIdx' = 0 /\ varIdx' = 0 /\ projIdx' = 0
  /\ existingValue' = UNDEF
  /\ defaultValue' = UNDEF
  /\ imports' = <<>>
  /\ value' = <<>>
  /\ updatedFiles' = <<>>
  /\ execLog' = <<>>
  /\ out' = <<>>
  /\ exitCode' = -1
  /\ UNCHANGED <<config, backendDir, writable, files, st, pipe>>

NextRerun ==
  \/ Next
  \/ Rerun

SpecRerun == InitRerun /\ [][NextRerun]_vars

\* ----------------------------------------------------------- the log filter
\* the prefixes the projects of the configuration declare in ignoreLogs
IgnoreSets == {{}, {"Error"}, {"Failed to export value", "Skipped"}, {"Set in", "Step"}}

FilterVarSet ==
  {Var(<<"API_KEY">>, ps, rq, UNDEF, UNDEF) :
     ps \in {<<"A", "B">>, <<"B">>, <<"B", "A">>}, rq \in BOOLEAN}

InitFilter ==
  /\ pc = "main"
  /\ \E v \in FilterVarSet, ig \in IgnoreSets :
       config = [state |-> "ok", steps |-> <<Step(<<v>>)>>, ignoreLogs |-> ig]
  /\ backendDir \in BOOLEAN
  /\ files0 = [p \in Paths |-> NoFile]
  /\ files = files0
  /\ writable \in {Paths, {}}
  /\ importResult \in ImportResults
  /\ values = NoValues
  /\ stepIdx = 0 /\ varIdx = 0 /\ projIdx = 0
  /\ existingValue = UNDEF
  /\ defaultValue = UNDEF
  /\ imports = <<>>
  /\ value = <<>>
  /\ updatedFiles = <<>>
  /\ execLog = <<>>
  /\ out = <<>>
  /\ exitCode = -1
  /\ st = NoStore
  /\ mode = "env" /\ dev = FALSE /\ handler = "part_006"
  /\ NoPipeline
  /\ run = FirstRun

\* the environment wizard over configurations that declare ignoreLogs
SpecFilter == InitFilter /\ [][Next]_vars

\* -------------------------------------------------------- Value Store alone
\* updateEnvFile applied twice with the same key and value to one file.
RECURSIVE SeqsUpTo(_, _)
SeqsUpTo(S, n) ==
  IF n = 0 THEN {<<>>}
  ELSE LET shorter == SeqsUpTo(S, n - 1)
       IN shorter \cup {Append(t, c) : t \in shorter, c \in S}

RawChar == {"x", SP, DQ, HASH}
Quoted(t) == <<DQ>> \o t \o <<DQ>>

\* what a hand-written .env file holds right of "=": bare, quoted, or a
\* quoted text that is itself in quotes
RawValues ==
  LET base == SeqsUpTo(RawChar, MaxRawLen)
  IN base \cup {Quoted(t) : t \in base} \cup {Quoted(Quoted(t)) : t \in base}

StoreFiles ==
  {NoFile, <<>>}
  \cup {<<"OTHER", EQ>> \o r : r \in RawValues}
  \cup {<<"API_KEY", EQ>> \o r : r \in RawValues}
  \cup {<<"OTHER", EQ>> \o r \o <<NL, "API_KEY", EQ, "x">> : r \in RawValues}

StoreValues == SeqsUpTo(RawChar, MaxValueLen)

InitStore ==
  /\ pc = "store"
  /\ \E f \in StoreFiles, v \in StoreValues :
       st = [f |-> f, key |-> <<"API_KEY">>, value |-> v, calls |-> 0,
             before |-> read(f), first |-> <<>>]
  /\ config = [state |-> "ok", steps |-> <<>>, ignoreLogs |-> {}]
  /\ backendDir = TRUE
  /\ files0 = [p \in Paths |-> NoFile]
  /\ files = files0
  /\ writable = Paths
  /\ importResult = [id \in ImportIds |-> THROW]
  /\ values = NoValues
  /\ stepIdx = 0 /\ varIdx = 0 /\ projIdx = 0
  /\ existingValue = UNDEF
  /\ defaultValue = UNDEF
  /\ imports = <<>>
  /\ value = <<>>
  /\ updatedFiles = <<>>
  /\ execLog = <<>>
  /\ out = <<>>
  /\ exitCode = -1
  /\ mode = "env" /\ dev = FALSE /\ handler = "part_006"
  /\ NoPipeline
  /\ run = FirstRun

\* upsert(F, K, V), then read(F)
Upsert ==
  /\ pc = "store"
  /\ st.calls < 2
  /\ LET f2 == updateEnvFile(st.f, st.key, st.value)
     IN st' = [st EXCEPT !.f = f2, !.calls = @ + 1,
                         !.first = IF st.calls = 0 THEN read(f2) ELSE @]
  /\ UNCHANGED <<pc, env, files, values, stepIdx, varIdx, projIdx, existingValue,
                 defaultValue, imports, value, updatedFiles, execLog, out, exitCode,
                 pipe, run>>

SpecStore == InitStore /\ [][Upsert]_vars

\* ------------------------------------------------------------------ claims

\* C1: after upsert(F, K, V), read(F) maps K to V, keeps every other key that
\* was in F with its previous value, and holds no key that was not in F.
C1_UpsertReadBack ==
  (pc = "store" /\ st.calls = 1) =>
    LET m == read(st.f)
    IN /\ Get(m, st.key) = st.value
       /\ \A k \in Keys(st.before) \ {st.key} : Get(m, k) = Get(st.before, k)
       /\ Keys(m) \subseteq Keys(st.before) \cup {st.key}

\* C2: the mapping parsed after a second upsert(F, K, V) is the mapping
\* parsed after the first.
C2_UpsertIdempotent ==
  (pc = "store" /\ st.calls = 2) => read(st.f) = st.first

\* --- helpers of the wizard claims
\* text holds `line` as one of its newline-separated lines
HasLine(text, line) ==
  /\ text # NoFile
  /\ \E a \in 1..Len(text), b \in 1..Len(text) :
       /\ a <= b
       /\ a = 1 \/ text[a - 1] = NL
       /\ b = Len(text) \/ text[b + 1] = NL
       /\ SubSeq(text, a, b) = line

\* the configuration is one step with the one variable v
OnlyVariable(v) == config.state = "ok" /\ config.steps = <<Step(<<v>>)>>

\* the messages an action adds
NewOut == SubSeq(out', Len(out) + 1, Len(out'))
NewExecs == SubSeq(execLog', Len(execLog) + 1, Len(execLog'))
Emits(msgs, ch, msg, name) ==
  \E i \in 1..Len(msgs) : msgs[i].ch = ch /\ msgs[i].msg = msg /\ msgs[i].name = name

\* what the i-th declared target of v holds for v.name right now: the file's
\* entry, or the trimmed answer of the import command
Yield(v, i) ==
  LET pid == v.projects[i]
  IN IF ~Known(pid) THEN UNDEF
     ELSE IF Find(pid).envFile # "" THEN getEnvFileValue(files[Find(pid).envFile], v.name)
     ELSE IF Find(pid).importCommand /\ importResult[pid] # THROW THEN Trim(importResult[pid])
     ELSE UNDEF

Hits(v) == {i \in 1..Len(v.projects) : Truthy(Yield(v, i))}

\* C3: one step, one required variable API_KEY, one file-backed target whose
\* file does not exist (in a place that can be written): the run does not
\* abort, and once the operator has entered abc123 and the run is complete
\* the file holds exactly API_KEY=abc123.
C3_MissingFileCreated ==
  (/\ config.state = "ok" /\ Len(config.steps) = 1
   /\ Len(config.steps[1].variables) = 1
   /\ config.steps[1].variables[1].name = <<"API_KEY">>
   /\ config.steps[1].variables[1].projects = <<"A">>
   /\ config.steps[1].variables[1].required
   /\ files0[FileA] = NoFile /\ FileA \in writable)
  => /\ pc # "exit"
     /\ (pc = "done" /\ value = <<"abc123">>) =>
          (exitCode = 0 /\ files[FileA] = <<"API_KEY", EQ, "abc123">>)

C3_Witness ==
  /\ OnlyVariable(Var(<<"API_KEY">>, <<"A">>, TRUE, UNDEF, UNDEF))
  /\ files0[FileA] = NoFile
  /\ pc = "done" /\ exitCode = 0
  /\ value = <<"abc123">>
  /\ files[FileA] = <<"API_KEY", EQ, "abc123">>

\* C4: the existing value is what the first declared target with a non-empty
\* value holds; only declared targets are asked, in order, and none after the
\* one that answered.  With targets [A, B], A's file holding x and B's import
\* answering y the result is x without running B's import; with nothing (or
\* an empty value) in A it is y.
C4_LookupPrecedence ==
  pc = "prompt" =>
    LET v == CurVar
    IN /\ existingValue = IF Hits(v) = {} THEN UNDEF ELSE Yield(v, Min(Hits(v)))
       /\ \A j \in 1..Len(imports) :
            \E i \in 1..Len(v.projects) :
              /\ v.projects[i] = imports[j].project
              /\ Hits(v) # {} => i <= Min(Hits(v))
       /\ (v.projects = <<"A", "B">> /\ importResult["B"] = <<SP, "y", NL>>) =>
            IF getEnvFileValue(files[FileA], v.name) = <<"x">>
            THEN existingValue = <<"x">> /\ imports = <<>>
            ELSE existingValue = <<"y">>

C4_Witness ==
  /\ pc = "prompt"
  /\ CurVar.projects = <<"A", "B">>
  /\ getEnvFileValue(files[FileA], CurVar.name) = <<"x">>
  /\ importResult["B"] = <<SP, "y", NL>>
  /\ existingValue = <<"x">>
  /\ imports = <<>>

\* C5: the default offered is the existing value when one was found; else the
\* interpolated template when the variable has one (also when that is empty);
\* else the static defaultValue.
C5_DefaultPrecedence ==
  pc = "prompt" =>
    LET v == CurVar
        rendered == IF v.template = <<"{{convexUrl}}">> THEN values.convexUrl
                    ELSE values.convexSiteUrl \o <<"/cb">>
    IN defaultValue = IF Truthy(existingValue) THEN existingValue
                      ELSE IF v.template # UNDEF THEN rendered
                      ELSE v.defaultValue

C5_Witness ==
  /\ pc = "prompt"
  /\ ~Truthy(existingValue)
  /\ CurVar.template = <<"{{convexUrl}}">>
  /\ values.convexUrl = <<>>
  /\ CurVar.defaultValue = <<"d">>
  /\ defaultValue = <<>>

\* C6: when an import command fails during the lookup, the error is caught and
\* reported, the lookup goes on with the targets after it, the fallback
\* applies when none of them has a value, and the prompt is reached.
C6_ImportFailureRecovered ==
  [][(pc = "variable" /\ \E j \in 1..Len(imports') : imports'[j].result = THROW) =>
       LET v == CurVar
           failed == {i \in 1..Len(v.projects) :
                        \E j \in 1..Len(imports') :
                          imports'[j].project = v.projects[i] /\ imports'[j].result = THROW}
           later == {i \in Hits(v) : i > Min(failed)}
       IN /\ pc' = "prompt"
          /\ exitCode' = -1
          /\ \A i \in failed : Emits(NewOut, "console.error", "Error", <<v.projects[i]>>)
          /\ existingValue' = IF later = {} THEN UNDEF ELSE Yield(v, Min(later))
          /\ (later = {} /\ v.template = UNDEF) => defaultValue' = v.defaultValue
    ]_vars

C6_Witness ==
  /\ pc = "prompt"
  /\ CurVar.projects = <<"B", "A">>
  /\ imports = <<[project |-> "B", result |-> THROW]>>
  /\ existingValue = <<"x">>

\* the envFile of every known file-backed target of ps, in order
RECURSIVE FileTargets(_)
FileTargets(ps) ==
  IF ps = <<>> THEN <<>>
  ELSE (IF Known(Head(ps)) /\ Find(Head(ps)).envFile # ""
        THEN <<Find(Head(ps)).envFile>> ELSE <<>>) \o FileTargets(Tail(ps))

\* the id of every known target of ps reached through its export command, in order
RECURSIVE ExportTargets(_)
ExportTargets(ps) ==
  IF ps = <<>> THEN <<>>
  ELSE (IF Known(Head(ps)) /\ Find(Head(ps)).envFile = "" /\ Find(Head(ps)).exportCommand
        THEN <<Head(ps)>> ELSE <<>>) \o ExportTargets(Tail(ps))

IsExport(e) == e.cmd = "export"

\* C7: when propagation of a confirmed value ends, every declared target has
\* received it: each file-backed one holds the line name=value and is listed
\* as written, each export-capable one had its export command run with the
\* name and the value, in the declared order.
C7_AllTargetsWritten ==
  [][(pc = "propagate" /\ pc' \notin {"propagate", "exit"}) =>
       LET v == CurVar
           exports == SelectSeq(execLog', IsExport)
       IN /\ updatedFiles' = FileTargets(v.projects)
          /\ \A i \in 1..Len(updatedFiles') :
               HasLine(files'[updatedFiles'[i]], v.name \o <<EQ>> \o value)
          /\ [i \in 1..Len(exports) |-> exports[i].project] = ExportTargets(v.projects)
          /\ \A i \in 1..Len(exports) :
               exports[i].name = v.name /\ exports[i].value = value
    ]_vars

C7_Witness ==
  /\ pc = "step" /\ stepIdx = 2
  /\ config.steps[1].variables[1].projects = <<"B", "A">>
  /\ existingValue = <<"y">>
  /\ imports = <<[project |-> "B", result |-> <<SP, "y", NL>>]>>
  /\ updatedFiles = <<FileA>>
  /\ HasLine(files[FileA], <<"API_KEY", EQ>> \o value)
  /\ \E i \in 1..Len(execLog) : execLog[i].cmd = "export" /\ execLog[i].project = "B"

\* C8: targets [A, B], A file-backed, B's export command throws: the file of
\* A holds the value, the written locations reported are A's file alone, B's
\* failure is reported, and the run goes on without aborting.
C8_PartialPropagation ==
  [][(/\ pc = "propagate" /\ CurVar.projects = <<"A", "B">> /\ projIdx = 2
      /\ NewExecs # <<>> /\ NewExecs[1].result = THROW) =>
       LET v == CurVar
       IN /\ pc' \in {"variable", "step"}
          /\ exitCode' = -1
          /\ HasLine(files'[FileA], v.name \o <<EQ>> \o value)
          /\ updatedFiles' = <<FileA>>
          /\ \E i \in 1..Len(NewOut) :
               NewOut[i] = Msg("customConsole.log", "Set in", v.name, <<FileA>>)
          /\ Emits(NewOut, "console.error", "Failed to export value", <<"B">>)
    ]_vars

C8_Witness ==
  /\ pc = "step" /\ stepIdx = 2 /\ exitCode = -1
  /\ config.steps[1].variables[1].projects = <<"A", "B">>
  /\ execLog # <<>>
  /\ execLog[Len(execLog)] = Exec("export", "B", <<"API_KEY">>, value, THROW)
  /\ updatedFiles = <<FileA>>
  /\ HasLine(files[FileA], <<"API_KEY", EQ>> \o value)

\* C9: a failure while writing or exporting a value to a target - a file write
\* as well as an export command - does not abort the run.
C9_WriteFailureRecovered ==
  [][pc = "propagate" => (pc' # "exit" /\ exitCode' = -1)]_vars

\* C10: a variable with required: false whose final value is empty is
\* skipped: no file is created or changed, no command is run, it is logged
\* as skipped and the run goes on to what follows it.
C10_OptionalEmptySkipped ==
  [][(pc = "prompt" /\ CurVar.required = FALSE /\ value' = <<>>) =>
       /\ files' = files
       /\ execLog' = execLog
       /\ pc' \in {"variable", "step"}
       /\ NewOut[1] = Msg("customConsole.log", "Skipped", CurVar.name, <<>>)
       /\ ~Emits(NewOut, "customConsole.log", "Set", CurVar.name)
       /\ ~Emits(NewOut, "customConsole.log", "Set in", CurVar.name)
    ]_vars

C10_Witness ==
  /\ pc = "done"
  /\ Len(config.steps) = 1
  /\ config.steps[1].variables[1].required = FALSE
  /\ config.steps[1].variables[1].projects = <<"A", "B">>
  /\ defaultValue = UNDEF
  /\ value = <<>>
  /\ files = files0
  /\ files[FileA] = NoFile
  /\ \A i \in 1..Len(execLog) : execLog[i].cmd # "export"
  /\ Emits(out, "customConsole.log", "Skipped", <<"API_KEY">>)

\* --- helpers of the pipeline claims
\* how often command cmd was started
RECURSIVE Count(_, _)
Count(log, cmd) ==
  IF log = <<>> THEN 0
  ELSE (IF Head(log).cmd = cmd THEN 1 ELSE 0) + Count(Tail(log), cmd)

\* the child of task t ends in this step, with a code of the set codes
Exits(t, codes) ==
  /\ child[t].st = "running"
  /\ child'[t].st = "exited"
  /\ child'[t].code \in {<<c>> : c \in codes}

\* C11: when the backend setup exits with the expected non-zero code, 1,
\* the task ends Succeeded, the run is not aborted, the task begun next is
\* the endpoint retrieval, and the backend setup is started once only.
C11_ExpectedFailureTolerated ==
  [][/\ Exits("convex", {1}) =>
          /\ status'["convex"] = "Succeeded"
          /\ pc' = "tasks" /\ exitCode' = -1
     /\ (taskIdx = 4 /\ taskIdx' # taskIdx) =>
          (Tasks[taskIdx'] = "url" /\ child'["url"].st = "running")
     /\ Count(execLog', "convex") <= 1]_vars

C11_Witness ==
  /\ child["convex"] = ChildOf("exited", <<1>>)
  /\ status["convex"] = "Succeeded"
  /\ status["url"] = "Running" /\ child["url"].st = "running"
  /\ exitCode = -1

\* C12: a non-zero exit of the child of any task but the backend setup, a
\* child that cannot be started, and an error thrown inside a task end the
\* run with exit status 1, the task Failed; nothing happens after the exit.
C12_OtherFailuresFatal ==
  [][/\ pc # "exit"
     /\ \A t \in TaskSet \ {"convex"} :
          (Exits(t, {1, 2, KilledBySignal}) \/ (child[t].st = "running" /\ child'[t].st = "failed"))
            => (pc' = "exit" /\ exitCode' = 1 /\ status'[t] = "Failed")
     /\ pc = "catch" => (pc' = "exit" /\ exitCode' = 1 /\ status'["env"] = "Failed")
     /\ \A t \in TaskSet : (status[t] # "Failed" /\ status'[t] = "Failed")
                             => (pc' = "exit" /\ exitCode' = 1)]_vars

C12_Witness ==
  /\ pc = "exit" /\ exitCode = 1
  /\ child["auth"] = ChildOf("exited", <<2>>)
  /\ status["auth"] = "Failed"
  /\ status["env"] = "Pending" /\ status["seed"] = "Pending"
  /\ files = files0

\* C13: the backend setup exiting with a non-zero code other than the
\* expected one (here: 2, where 1 is expected) ends the run with exit status 1
\* before any later task.
C13_OnlyExpectedCodeTolerated ==
  child["convex"].code = <<2>> =>
    (pc = "exit" /\ exitCode = 1 /\ status["url"] = "Pending")

\* C14: at most one spawned child process is alive.
C14_OneChildAtATime ==
  Cardinality({t \in TaskSet : Alive(t)}) <= 1

\* C15: when the endpoint retrieval ends without a url (non-zero exit, or
\* output without a url) the Value Context stays as it was and the run goes
\* on with the next task.
C15_EndpointFailureTolerated ==
  [][(child["url"].st = "running" /\ child'["url"].st = "exited" /\ UrlsMissing(values'))
       => (values' = values /\ pc' = "tasks" /\ exitCode' = -1)]_vars

\* the run was ended because of the configuration document
ConfigAbort ==
  /\ pc = "exit"
  /\ config.state # "ok"
  /\ mode = "env" \/ status["env"] \in {"Running", "Failed"}

\* C16: when the run aborts because the configuration is missing,
\* unparseable or without a projects array, no command has been run and no
\* file written.
C16_ConfigErrorBeforeSideEffects ==
  ConfigAbort => (execLog = <<>> /\ files = files0)

\* every task of the selected mode ended well by the spec's classification:
\* Succeeded, the backend setup with exit code 0 or the expected code 1
CompletedFully ==
  /\ pc = "done"
  /\ config.state = "ok" /\ stepIdx > Len(config.steps)
  /\ mode = "create" =>
       /\ \A t \in TaskSet : status[t] = "Succeeded"
       /\ child["convex"].code # <<2>>

\* C17: the exit code is 0 only when the run completed fully, and 1 when a
\* task was fatal, the configuration is missing or does not load, or an error
\* was not caught.
C17_ExitCode ==
  /\ exitCode \in {-1, 0, 1}
  /\ exitCode = 0 => CompletedFully
  /\ (pc = "exit" \/ \E t \in TaskSet : status[t] = "Failed") => exitCode = 1
  /\ (pc \notin {"main", "tasks", "continue", "child"} /\ config.state = "missing")
       => exitCode = 1

\* the commands of the bootstrap tasks
BootstrapCommands == {"clone", "install", "git", "convex", "auth", "seed"}

C20_NoRetry ==
  \A c \in BootstrapCommands \cup {"function-spec"} : Count(execLog, c) <= 1

\* C19: in a re-run after a complete run in which the variable received the
\* non-empty value V and every export succeeded, with every prompt answered
\* empty, V is the default offered and, when the re-run is complete, every
\* persistence file parses to the mapping it parsed to when the re-run began.
C19_RerunRediscovers ==
  (run.n = 2 /\ Truthy(run.received) /\ run.clean) =>
    /\ pc \in {"prompt", "propagate"} => defaultValue = run.received
    /\ pc = "done" => \A p \in Paths : read(files[p]) = read(files0[p])

\* task t ended in a state after which the spec lets the next task begin:
\* Succeeded, and for the backend setup not by a non-zero exit code other
\* than the expected one
EndedWell(t) ==
  /\ status[t] = "Succeeded"
  /\ t = "convex" => child[t].code # <<2>>

\* the changes of a task's state the spec allows; a task that throws as soon
\* as it is called goes from Pending to Failed in one step
TaskMoves ==
  {<<"Pending", "Running">>, <<"Running", "Succeeded">>, <<"Running", "Failed">>,
   <<"Pending", "Failed">>}

\* C21: the tasks are begun in the declared order, each goes Pending ->
\* Running -> Succeeded or Failed once, at most one is Running, and a task
\* is begun only when the one before it ended Succeeded or as an expected
\* failure, never after a fatal one.
C21_TasksInOrder ==
  [][\A i \in 1..Len(Tasks) :
       LET t == Tasks[i]
       IN /\ status'[t] # status[t] => <<status[t], status'[t]>> \in TaskMoves
          /\ (status[t] = "Pending" /\ status'[t] # "Pending") =>
               /\ i = taskIdx + 1
               /\ i > 1 => EndedWell(Tasks[i - 1])
               /\ \A u \in TaskSet \ {t} : status[u] # "Running"]_vars

\* C22: no step of the environment wizard (setupEnvironment and its loops)
\* changes the Value Context.
C22_ValueContextFrame ==
  [][(pc \in {"setup", "step", "variable", "prompt", "propagate"}) =>
       (values' = values)]_vars

\* C23: while the child of a task with visible output (backend setup,
\* authentication setup) is alive, the spinner is stopped: it is neither
\* spinning nor finalized.
C23_SpinnerQuietWhileChildRuns ==
  \A t \in SpawnTasks : Alive(t) => spinner = "stopped"

\* C24: when a non-zero exit of the backend setup is tolerated, the note
\* explaining it is printed.
C24_ExpectedFailureNoteShown ==
  [][(Exits("convex", {1, 2}) /\ status'["convex"] = "Succeeded") =>
       \E i \in 1..Len(NewOut) : NewOut[i].msg = "Note: exited as expected"]_vars

\* C25: when the run of a new project (task loop of part_006) ends with exit
\* status 1 after a task was begun, the logger is enabled and the title of that task and the error
\* have been printed; between two tasks the logger is enabled.
C25_FatalNamesTask ==
  /\ (mode = "create" /\ handler = "part_006" /\ pc = "exit" /\ taskIdx > 0) =>
       /\ enabled
       /\ Emits(out, "logger.error", "Error during", <<Cur>>)
       /\ Emits(out, "logger.error", "error", <<Cur>>)
  /\ pc = "tasks" => enabled

\* C26: no message emitted while setupEnvironment runs reaches the terminal
\* if it starts with a prefix some project declares in ignoreLogs.
C26_AllMessagesFiltered ==
  [][(pc \in {"setup", "step", "variable", "prompt", "propagate"}) =>
       (\A i \in 1..Len(NewOut) : ~shouldIgnoreLog(NewOut[i].msg, config.ignoreLogs))]_vars

\* C27: a text with placeholders is rendered as an info message exactly as it
\* is rendered as a template, whatever the Value Context holds.
C27_InfoLikeTemplate ==
  (pc = "prompt" /\ CurVar.template # UNDEF) =>
    InterpolateInfo(CurVar.template, values) = InterpolateTemplate(CurVar.template, values)

\* the variable handled before the current one
PrevVar ==
  IF varIdx > 1 THEN config.steps[stepIdx].variables[varIdx - 1]
  ELSE LET s == CHOOSE k \in 1..(stepIdx - 1) :
                  /\ config.steps[k].variables # <<>>
                  /\ \A m \in (k + 1)..(stepIdx - 1) : config.steps[m].variables = <<>>
       IN config.steps[s].variables[Len(config.steps[s].variables)]

HasPrev ==
  varIdx > 1 \/ \E k \in 1..(stepIdx - 1) : config.steps[k].variables # <<>>

\* C28: the variables are handled one at a time in config order: when the
\* existing value of a variable is looked up, the variable before it has been
\* propagated, and if both name the same key of the same persistence file the
\* lookup yields the value the earlier one was given.
C28_LaterVariableSeesEarlierValue ==
  [][(pc = "variable" /\ pc' = "prompt" /\ HasPrev) =>
       /\ HasLine(files[FileA], PrevVar.name \o <<EQ>> \o value)
       /\ (PrevVar.name = CurVar.name /\ Truthy(value)) => existingValue' = value]_vars

\* C29: a variable that is not required: false is propagated whatever the
\* final value; with an empty value every file-backed target ends up with the
\* line name= and every export-capable target has its export command run
\* with the empty value.  Only required: false with an empty value is skipped.
C29_RequiredEmptyPropagated ==
  [][/\ (pc = "prompt" /\ CurVar.projects # <<>>) =>
          ((pc' = "propagate") <=> ~(CurVar.required = FALSE /\ value' = <<>>))
     /\ (pc = "propagate" /\ pc' \notin {"propagate", "exit"} /\ value = <<>>) =>
          LET v == CurVar
              all == SelectSeq(execLog', IsExport)
          IN /\ v.required # FALSE
             /\ \A i \in 1..Len(FileTargets(v.projects)) :
                  HasLine(files'[FileTargets(v.projects)[i]], v.name \o <<EQ>>)
             /\ [i \in 1..Len(all) |-> all[i].project] = ExportTargets(v.projects)
             /\ \A i \in 1..Len(all) : all[i].value = <<>>
    ]_vars

C29_Witness ==
  /\ pc = "step" /\ stepIdx = 2 /\ exitCode = -1
  /\ config.steps[1].variables[1].projects = <<"A", "B">>
  /\ config.steps[1].variables[1].required
  /\ value = <<>>
  /\ HasLine(files[FileA], <<"API_KEY", EQ>>)
  /\ \E i \in 1..Len(execLog) :
       execLog[i].cmd = "export" /\ execLog[i].project = "B" /\ execLog[i].value = <<>>

\* C30: a declared target id that names no project of the configuration is
\* passed over: the lookup asks the remaining targets, the propagation step
\* for it changes nothing and does not end the run, the remaining targets are
\* written, and the variable is reported as set.
C30_UnknownTargetSkipped ==
  [][/\ (pc = "variable" /\ CurVar.projects = <<"Z", "A">>) =>
          /\ pc' = "prompt"
          /\ imports' = <<>>
          /\ existingValue' = (IF Truthy(Yield(CurVar, 2)) THEN Yield(CurVar, 2) ELSE UNDEF)
          /\ \A i \in 1..Len(NewOut) : NewOut[i].ch # "console.error"
     /\ (pc = "propagate" /\ ~Known(CurVar.projects[projIdx])) =>
          /\ files' = files /\ execLog' = execLog
          /\ exitCode' = -1 /\ pc' # "exit"
          /\ MoreTargets(CurVar, projIdx) => (pc' = "propagate" /\ projIdx' = projIdx + 1)
     /\ (pc = "propagate" /\ CurVar.projects = <<"Z", "A">> /\ projIdx = 2 /\ pc' # "exit") =>
          /\ HasLine(files'[FileA], CurVar.name \o <<EQ>> \o value)
          /\ \E i \in 1..Len(NewOut) :
               NewOut[i] = Msg("customConsole.log", "Set in", CurVar.name, <<FileA>>)
    ]_vars

C30_Witness ==
  /\ pc = "step" /\ stepIdx = 2 /\ exitCode = -1
  /\ config.steps[1].variables[1].projects = <<"Z", "A">>
  /\ value = <<"abc123">>
  /\ updatedFiles = <<FileA>>
  /\ files[FileA] = <<"API_KEY", EQ, "abc123">>
  /\ Emits(out, "customConsole.log", "Set in", <<"API_KEY">>)
\* C31: once the backend setup has been resolved by the stderr handler, a
\* later 'exit' event (by signal or with a non-zero code) or 'error' event of
\* that child changes no task's state and neither ends nor redirects the run.
C31_OutcomeDecidedOnce ==
  [][(child["convex"].st \in {"killed", "unkilled"} /\ child'["convex"] # child["convex"]) =>
       /\ status' = status
       /\ pc' = pc /\ exitCode' = exitCode /\ taskIdx' = taskIdx
       /\ spinner' = spinner /\ enabled' = enabled]_vars

C31_Witness ==
  /\ Emits(out, "console.log", "Detected expected error", <<>>)
  /\ child["convex"] = ChildOf("exited", <<1>>)
  /\ status["convex"] = "Succeeded"
  /\ pc = "done" /\ exitCode = 0

C31_WitnessError ==
  /\ child["convex"].st = "unkilled"
  /\ status["convex"] = "Succeeded"
  /\ status["url"] = "Succeeded" /\ exitCode = -1

\* the targets that declare both a persistence file and commands
BothMechanisms ==
  {Projects[i].id : i \in {j \in 1..Len(Projects) :
      Projects[j].envFile # "" /\ (Projects[j].importCommand \/ Projects[j].exportCommand)}}

\* C32: no import and no export command of a target that declares both a
\* persistence file and commands is ever run; when the file of such a target
\* holds no value for the key, the lookup goes on without its import command.
C32_FileTargetUsesOnlyFile ==
  /\ \A i \in 1..Len(execLog) : execLog[i].project \notin BothMechanisms
  /\ \A i \in 1..Len(imports) : imports[i].project \notin BothMechanisms
  /\ (pc = "prompt" /\ CurVar.projects = <<"C">>
        /\ ~Truthy(getEnvFileValue(files[FileC], CurVar.name)))
       => existingValue = UNDEF

C32_Witness ==
  /\ pc = "step" /\ stepIdx = 2 /\ exitCode = -1
  /\ config.steps[1].variables[1].projects = <<"C">>
  /\ importResult["C"] = <<SP, "y", NL>>
  /\ files0[FileC] = NoFile
  /\ existingValue = UNDEF
  /\ value = <<"abc123">>
  /\ files[FileC] = <<"API_KEY", EQ, "abc123">>
  /\ execLog = <<>>

\* the persistence files of the targets variable v declares
DeclaredFiles(v) ==
  {Find(v.projects[i]).envFile : i \in {j \in 1..Len(v.projects) : Known(v.projects[j])}} \ {""}

\* C33: a propagation step of variable v leaves every persistence file v does
\* not declare as it is, and in the files it declares the value read for
\* every key other than v.name, and the set of those keys, are as before.
C33_PropagationFrame ==
  [][pc = "propagate" =>
       \A p \in Paths :
         IF p \in DeclaredFiles(CurVar)
         THEN /\ Keys(read(files'[p])) \ {CurVar.name} = Keys(read(files[p])) \ {CurVar.name}
              /\ \A k \in Keys(read(files[p])) \ {CurVar.name} :
                    Get(read(files'[p]), k) = Get(read(files[p]), k)
         ELSE files'[p] = files[p]]_vars

\* C34: resolving the default of a variable (the lookup of its existing
\* value included) changes no persistence file, creates none, and leaves the
\* Value Context as it is, whatever the lookup finds.
C34_LookupReadOnly ==
  [][pc = "variable" => (files' = files /\ values' = values)]_vars

\* an import command failed, a declared file was missing: nothing was created
C34_Witness ==
  /\ pc = "prompt"
  /\ CurVar.projects = <<"B", "A">>
  /\ \E i \in 1..Len(imports) : imports[i].result = THROW
  /\ existingValue = UNDEF
  /\ files[FileA] = NoFile /\ files = files0

\* the run is over: main returned, or process.exit(1) was called
Ended == (pc = "done" /\ exitCode = 0) \/ (pc = "exit" /\ exitCode = 1)

\* C35: when every child started ends and the operator answers every prompt,
\* the run ends, completed or with exit status 1, in both modes; and the
\* run never waits for a child that has exited already.
C35_Terminates ==
  /\ <>Ended
  /\ [](pc = "child" => child[Cur].st = "running")

C35_Witness ==
  /\ mode = "create"
  /\ pc = "done" /\ exitCode = 0
  /\ \A t \in TaskSet : status[t] = "Succeeded" /\ child[t].st \in {"none", "exited"}
  /\ value = <<"abc123">>

====
